---- MODULE Spec2Model ----
(***************************************************************************)
(* A model of the retrieval core of claude-recall: the telemetry collector *)
(* and its batched JSONL writer (scripts/telemetry/collector.py,           *)
(* scripts/metrics/jsonl_utils.py), the search orchestrator                *)
(* (scripts/search_index.py), the session indexer                          *)
(* (scripts/index_session.py), the embedding generator                     *)
(* (scripts/embed_sessions.py), smart_recall (scripts/smart_recall.py)     *)
(* with the quality log, and the secret redactor                           *)
(* (scripts/redact_secrets.py).                                            *)
(*                                                                         *)
(* The specifications share the variables:                                 *)
(*   SpecTel      - any sequence of collector calls, with failing flushes  *)
(*   SpecLife     - start_event, update_event, end_event                   *)
(*   SpecWriter   - log_event, flush and the clock                         *)
(*   SpecIdentity - the collector under contexts with its own keys         *)
(*   SpecThreads  - two threads in the collector                           *)
(*   SpecSearch   - one search_sessions call, with faults in the pipeline  *)
(*   SpecProcess  - several searches in one process, next to the indexer   *)
(*   SpecRecall   - one smart_recall call                                  *)
(*   SpecIndex    - sequences of update_index calls                        *)
(*   SpecConc     - one search next to a write of the index file           *)
(*   SpecWriters  - two writers of the index file                          *)
(*   SpecRedact   - one SecretRedactor.redact call                         *)
(***************************************************************************)
EXTENDS Integers, Sequences, FiniteSets, TLC

VARIABLES
    current_events,   \* TelemetryCollector.current_events: event_id -> event
    writer,           \* BatchedJSONLWriter: buffer, last_flush; and the log file
    now,              \* the wall clock, time.time()
    nextId,           \* the next uuid4 (uuids are fresh: a counter)
    faults,           \* number of failed file writes so far
    handed,           \* history: the events passed to writer.append, in order
    pc,               \* position of the running search_sessions call
    call,             \* arguments of the running search_sessions call
    eid,              \* event_id of the running search_sessions call
    loaded,           \* the index as loaded by the running call
    scored,           \* the list being ranked by the running call
    result,           \* what the call gave its caller
    index,            \* the contents of index.json
    dense,            \* what the embedding side of the process can deliver
    ingested,         \* history: the last update_index call
    threads,          \* each thread's position inside the collector and the writer
    cache,            \* EmbeddingCache, the singleton of the process
    stderr,           \* the warnings printed so far, by reason
    writers,          \* each index writer's position, the index it read, its session
    quality_log,      \* the contents of quality_scores.jsonl
    recall,           \* the running smart_recall call
    redaction         \* the running SecretRedactor.redact call

telVars    == <<current_events, writer, now, nextId, faults, handed>>
searchVars == <<pc, call, eid, loaded, scored, result, dense>>
indexVars  == <<index, ingested>>
sideVars   == <<threads, cache, stderr, writers, quality_log, recall, redaction>>
vars       == <<telVars, searchVars, indexVars, sideVars>>

-----------------------------------------------------------------------------
(* Bounds of the model *)

MaxEvents == 2      \* events per behaviour
MaxFaults == 1      \* failed file writes per behaviour
MaxClock  == 2      \* ticks of the wall clock per behaviour
MaxIngest == 3      \* update_index calls per behaviour

(* Configuration, metrics/config.py: telemetry.batch_size and             *)
(* telemetry.batch_flush_interval_sec, scaled down from 10 and 5.0         *)
batch_size     == 2
flush_interval == 1

-----------------------------------------------------------------------------
(* Values *)

ABSENT == "ABSENT"      \* a key that is not in a dict
NoInt  == -1            \* an integer-valued key that is not in a dict
Null   == 0             \* Python's None where an id is expected

(* Query text is a sequence of words.  SECRET stands for a literal the     *)
(* pattern catalog detects (an sk-proj-... key); REDACTED for the          *)
(* placeholder [REDACTED:name].                                            *)
SECRET   == "sk-proj-AAAA"
REDACTED == "[REDACTED:key]"
Texts    == { <<"use", SECRET, "now">> }

HasSecret(text) == \E i \in DOMAIN text : text[i] = SECRET

(* SecretRedactor.redact: every detected span is replaced by the           *)
(* placeholder, the rest of the text is kept in order.                     *)
Redact(text) == [i \in DOMAIN text |-> IF text[i] = SECRET THEN REDACTED ELSE text[i]]

(* The "query" entry of an event: absent, a bare string, or a dict that    *)
(* may hold raw_query.                                                     *)
NoQuery        == [kind |-> "absent", hasRaw |-> FALSE, text |-> <<>>]
StrQuery(t)    == [kind |-> "str",    hasRaw |-> FALSE, text |-> t]
DictQuery(t)   == [kind |-> "dict",   hasRaw |-> TRUE,  text |-> t]
DictQueryNoRaw == [kind |-> "dict",   hasRaw |-> FALSE, text |-> <<>>]

(* The "outcome" entry of an event. *)
NoOutcome == [present |-> FALSE, success |-> FALSE, error |-> ABSENT, error_type |-> ABSENT]
Outcome(s, e, t) == [present |-> TRUE, success |-> s, error |-> e, error_type |-> t]

(* A context or a patch: the keys a caller passes.  ABSENT / NoInt mark a  *)
(* key the caller did not pass.                                            *)
EmptyPatch ==
    [ event_id      |-> NoInt,
      timestamp     |-> NoInt,
      event_type    |-> ABSENT,
      query         |-> NoQuery,
      mode          |-> ABSENT,     \* search_config.mode
      mode_resolved |-> ABSENT,     \* search_config.mode_resolved
      count         |-> NoInt,      \* results.count
      degraded      |-> ABSENT,     \* performance.degraded
      error         |-> ABSENT,     \* top-level error
      error_type    |-> ABSENT,     \* top-level error_type
      outcome       |-> NoOutcome ]

-----------------------------------------------------------------------------
(* TelemetryCollector._deep_merge *)

MergeQuery(target, source) ==
    IF source.kind = "absent" THEN target
    ELSE IF target.kind = "dict" /\ source.kind = "dict"
         THEN IF source.hasRaw THEN source ELSE target
         ELSE source

MergeOutcome(target, source) ==
    IF ~source.present THEN target
    ELSE IF ~target.present THEN source
    ELSE [ present    |-> TRUE,
           success    |-> source.success,
           error      |-> IF source.error = ABSENT THEN target.error ELSE source.error,
           error_type |-> IF source.error_type = ABSENT THEN target.error_type
                                                        ELSE source.error_type ]

Over(t, s)    == IF s = ABSENT THEN t ELSE s
OverInt(t, s) == IF s = NoInt THEN t ELSE s

DeepMerge(target, source) ==
    [ event_id      |-> OverInt(target.event_id, source.event_id),
      timestamp     |-> OverInt(target.timestamp, source.timestamp),
      event_type    |-> Over(target.event_type, source.event_type),
      query         |-> MergeQuery(target.query, source.query),
      mode          |-> Over(target.mode, source.mode),
      mode_resolved |-> Over(target.mode_resolved, source.mode_resolved),
      count         |-> OverInt(target.count, source.count),
      degraded      |-> Over(target.degraded, source.degraded),
      error         |-> Over(target.error, source.error),
      error_type    |-> Over(target.error_type, source.error_type),
      outcome       |-> MergeOutcome(target.outcome, source.outcome) ]

-----------------------------------------------------------------------------
(* JSONLWriter.append_batch and BatchedJSONLWriter *)

Prefix(s, k) == SubSeq(s, 1, k)

(* BatchedJSONLWriter.flush.  The possible outcomes of one call, each with *)
(* a flag telling whether the file write raised.  append_batch writes the  *)
(* lines one by one; when a write raises after k lines, those k lines are  *)
(* in the file (the file object is closed, which flushes it, as the with   *)
(* block unwinds), the exception is caught, and the buffer is kept.        *)
FlushOutcomes(w, t, mayFail) ==
    IF w.buffer = <<>>
    THEN { [w |-> w, failed |-> FALSE] }
    ELSE { [w |-> [buffer |-> <<>>, file |-> w.file \o w.buffer, last_flush |-> t],
            failed |-> FALSE] }
         \cup
         IF mayFail
         THEN { [w |-> [w EXCEPT !.file = w.file \o Prefix(w.buffer, k)], failed |-> TRUE]
                : k \in 0 .. Len(w.buffer) - 1 }
         ELSE {}

(* A flush test that waits for the buffer to exceed batch_size *)
ShouldFlushAbove(w, t) ==
    \/ Len(w.buffer) > batch_size
    \/ (flush_interval > 0 /\ (t - w.last_flush) > flush_interval)

(* BatchedJSONLWriter.append *)
ShouldFlush(w, t) ==
    \/ Len(w.buffer) >= batch_size
    \/ (flush_interval > 0 /\ (t - w.last_flush) > flush_interval)

AppendOutcomes(w, data, t, mayFail) ==
    LET w1 == [w EXCEPT !.buffer = Append(w.buffer, data)]
    IN  IF ShouldFlush(w1, t)
        THEN FlushOutcomes(w1, t, mayFail)
        ELSE { [w |-> w1, failed |-> FALSE] }

MayFail == faults < MaxFaults

-----------------------------------------------------------------------------
(* TelemetryCollector *)

(* start_event, lines 111-116: the query text of the context is redacted   *)
RedactQuery(q) ==
    IF q.kind = "dict" /\ q.hasRaw THEN [q EXCEPT !.text = Redact(q.text)]
    ELSE IF q.kind = "str" THEN [q EXCEPT !.text = Redact(q.text)]
    ELSE q

(* start_event, lines 118-124: {"event_id":..., "timestamp":...,           *)
(* "event_type":..., **context}: keys of the context win.                  *)
NewEvent(id, t, type, context) ==
    DeepMerge([EmptyPatch EXCEPT !.event_id = id, !.timestamp = t, !.event_type = type],
              [context EXCEPT !.query = RedactQuery(context.query)])

(* update_event: the patch is merged as it is *)
Updated(event, data) == DeepMerge(event, data)

(* end_event, lines 169-171: a non-empty outcome replaces event["outcome"] *)
WithOutcome(event, outcome) ==
    IF outcome.present THEN [event EXCEPT !.outcome = outcome] ELSE event

(* log_event, lines 192-201 *)
Stamped(event, t) ==
    [event EXCEPT !.timestamp = IF event.timestamp = NoInt THEN t ELSE event.timestamp,
                  !.query = RedactQuery(event.query)]

Active == DOMAIN current_events

(* The in-flight map with end_event's del left out *)
WithoutDel(f, k) == f

Without(f, k) == [x \in (DOMAIN f) \ {k} |-> f[x]]
With(f, k, v) == [x \in (DOMAIN f) \cup {k} |-> IF x = k THEN v ELSE f[x]]

QueryDirty(q) == q.kind # "absent" /\ HasSecret(q.text)

(* The contexts, patches and outcomes the callers pass *)
Contexts ==
    { EmptyPatch }
    \cup { [EmptyPatch EXCEPT !.query = DictQuery(t)] : t \in Texts }
    \cup { [EmptyPatch EXCEPT !.query = StrQuery(t)] : t \in Texts }

Patches ==
    { [EmptyPatch EXCEPT !.count = 0] }
    \cup { [EmptyPatch EXCEPT !.query = DictQuery(t)] : t \in Texts }

Outcomes == { NoOutcome, Outcome(TRUE, ABSENT, ABSENT) }

LoggedEvents ==
    { [EmptyPatch EXCEPT !.event_id = Null, !.event_type = "context_analyzed",
                         !.query = StrQuery(t)] : t \in Texts }

(* update_event that creates the entry when the id is not in flight *)
AfterUpdateUpsert(events, id, data) ==
    With(events, id, IF id \in DOMAIN events THEN Updated(events[id], data) ELSE data)

(* update_event as a function of the in-flight map: nothing happens for   *)
(* an id that is not in flight                                             *)
AfterUpdate(events, id, data) ==
    IF id \in DOMAIN events THEN [events EXCEPT ![id] = Updated(@, data)] ELSE events

(* end_event on the in-flight map `events`: nothing happens for an id that *)
(* is not in flight; otherwise the event gets its outcome, goes to         *)
(* writer.append (whose exceptions are caught) and leaves the map.         *)
FinishEvent(events, id, outcome) ==
    IF id \notin DOMAIN events
    THEN /\ current_events' = events
         /\ UNCHANGED <<writer, faults, handed>>
    ELSE LET event == WithOutcome(events[id], outcome)
         IN  /\ \E o \in AppendOutcomes(writer, event, now, MayFail) :
                  /\ writer' = o.w
                  /\ faults' = IF o.failed THEN faults + 1 ELSE faults
             /\ handed' = Append(handed, event)
             /\ current_events' = Without(events, id)

Room == Cardinality(Active) + Len(handed) < MaxEvents

StartEvent(type, context) ==
    /\ Room
    /\ current_events' = With(current_events, nextId, NewEvent(nextId, now, type, context))
    /\ nextId' = nextId + 1
    /\ UNCHANGED <<writer, now, faults, handed, searchVars, indexVars, sideVars>>

UpdateEvent(id, data) ==
    /\ current_events' = AfterUpdate(current_events, id, data)
    /\ UNCHANGED <<writer, now, nextId, faults, handed, searchVars, indexVars, sideVars>>

EndEvent(id, outcome) ==
    /\ FinishEvent(current_events, id, outcome)
    /\ UNCHANGED <<now, nextId, searchVars, indexVars, sideVars>>

LogEvent(event) ==
    /\ Room
    /\ LET e == Stamped(event, now)
       IN  /\ \E o \in AppendOutcomes(writer, e, now, MayFail) :
                /\ writer' = o.w
                /\ faults' = IF o.failed THEN faults + 1 ELSE faults
           /\ handed' = Append(handed, e)
    /\ UNCHANGED <<current_events, now, nextId, searchVars, indexVars, sideVars>>

Flush ==
    /\ \E o \in FlushOutcomes(writer, now, MayFail) :
         /\ writer' = o.w
         /\ faults' = IF o.failed THEN faults + 1 ELSE faults
    /\ UNCHANGED <<current_events, now, nextId, handed, searchVars, indexVars, sideVars>>

Tick ==
    /\ now < MaxClock
    /\ now' = now + 1
    /\ UNCHANGED <<current_events, writer, nextId, faults, handed, searchVars, indexVars, sideVars>>

-----------------------------------------------------------------------------
(* Sessions and the index, scripts/index_session.py *)

Scale == 10     \* scores are fixed-point: Scale stands for 1.0

NoAge == 99     \* a session without a "captured" or "timestamp" entry

RECURSIVE Twice(_)
(* every word of the list, twice *)
Twice(s) == IF s = <<>> THEN <<>> ELSE <<Head(s), Head(s)>> \o Twice(Tail(s))

(* parse_session_metadata, lines 80-122: the BM25 corpus of a session is   *)
(* its summary three times and each of its topics twice (the other fields  *)
(* are empty in the sessions at hand), tokenized.                          *)
Meta(i, ts, sum, tops, a) ==
    [ id |-> i, timestamp |-> ts,
      bm25_tokens |-> sum \o sum \o sum \o Twice(tops),
      summary |-> sum, topics |-> tops, age |-> a ]

MetaA  == Meta(1, 3, <<"auth", "jwt", "bug">>, <<"security">>, 0)
MetaA2 == Meta(1, 1, <<"deploy">>, <<"ci">>, 1)
MetaB  == Meta(2, 2, <<"deploy", "ci">>, <<"ci">>, 2)
MetaC  == Meta(3, 2, <<"auth", "jwt">>, <<"security">>, 1)
MetaD  == Meta(4, 0, <<>>, <<>>, NoAge)
MetaE  == Meta(5, 2, <<"deploy">>, <<"ci">>, 1)

Metas == {MetaA, MetaA2, MetaB, MetaC, MetaD}

RECURSIVE SumSeq(_)
SumSeq(s) == IF s = <<>> THEN 0 ELSE Head(s) + SumSeq(Tail(s))

RECURSIVE SelectSeqBy(_, _)
(* [x for x in s if x.id \in keep] *)
SelectSeqBy(s, keep) ==
    IF s = <<>> THEN <<>>
    ELSE IF Head(s).id \in keep THEN <<Head(s)>> \o SelectSeqBy(Tail(s), keep)
         ELSE SelectSeqBy(Tail(s), keep)

Ids(s) == { s[i].id : i \in DOMAIN s }

(* list.sort(key=..., reverse=True) is stable: elements with equal keys    *)
(* keep their order.  Insertion of the pair x = [k, v] into a list of      *)
(* pairs sorted by descending k, behind the pairs with the same k.         *)
RECURSIVE InsertDesc(_, _)
InsertDesc(x, s) ==
    IF s = <<>> THEN <<x>>
    ELSE IF Head(s).k >= x.k THEN <<Head(s)>> \o InsertDesc(x, Tail(s))
         ELSE <<x>> \o s

RECURSIVE SortPairsDesc(_)
SortPairsDesc(s) ==
    IF s = <<>> THEN <<>>
    ELSE InsertDesc(s[Len(s)], SortPairsDesc(SubSeq(s, 1, Len(s) - 1)))

(* A sort that orders ascending and then reverses the list: sessions with  *)
(* the same timestamp come out in the opposite order                       *)
SortByTimestampReversing(s) ==
    LET sorted == SortPairsDesc([i \in DOMAIN s |-> [k |-> 0 - s[i].timestamp, v |-> s[i]]])
    IN  [i \in DOMAIN sorted |-> sorted[Len(sorted) + 1 - i].v]

(* sessions.sort(key=lambda s: s.get("timestamp", ""), reverse=True) *)
SortByTimestamp(s) ==
    LET sorted == SortPairsDesc([i \in DOMAIN s |-> [k |-> s[i].timestamp, v |-> s[i]]])
    IN  [i \in DOMAIN sorted |-> sorted[i].v]

Count(toks, q) == Cardinality({ i \in DOMAIN toks : toks[i] = q })

(* rebuild_bm25_index: statistics over the sessions that have tokens, in   *)
(* session order; None when no session has tokens.  doc_freqs[i] is kept   *)
(* as the token list of document i, from which the frequencies are read.   *)
NoBm25 == [present |-> FALSE, doc_len |-> <<>>, doc_freqs |-> <<>>, session_ids |-> <<>>]

rebuild_bm25_index(sessions) ==
    LET withTokens == { sessions[i].id : i \in { j \in DOMAIN sessions :
                                                 sessions[j].bm25_tokens # <<>> } }
        corpus     == SelectSeqBy(sessions, withTokens)
    IN  IF corpus = <<>> THEN NoBm25
        ELSE [ present     |-> TRUE,
               doc_len     |-> [i \in DOMAIN corpus |-> Len(corpus[i].bm25_tokens)],
               doc_freqs   |-> [i \in DOMAIN corpus |-> corpus[i].bm25_tokens],
               session_ids |-> [i \in DOMAIN corpus |-> corpus[i].id] ]

NoIndexFile == [exists |-> FALSE, malformed |-> FALSE, sessions |-> <<>>,
                bm25_index |-> NoBm25, embedding_index |-> FALSE]

(* update_index that appends without removing the entry of the same id *)
IngestAppendOnly(idx, session_metadata) ==
    LET old      == IF idx.exists THEN idx.sessions ELSE <<>>
        sessions == SortByTimestamp(Append(old, session_metadata))
    IN  [ exists          |-> TRUE,
          malformed       |-> FALSE,
          sessions        |-> sessions,
          bm25_index      |-> rebuild_bm25_index(sessions),
          embedding_index |-> IF idx.exists THEN idx.embedding_index ELSE FALSE ]

(* update_index, lines 154-183, as a function of the index read *)
Ingest(idx, session_metadata) ==
    LET old      == IF idx.exists THEN idx.sessions ELSE <<>>
        kept     == SelectSeqBy(old, Ids(old) \ {session_metadata.id})
        sessions == SortByTimestamp(Append(kept, session_metadata))
    IN  [ exists          |-> TRUE,
          malformed       |-> FALSE,
          sessions        |-> sessions,
          bm25_index      |-> rebuild_bm25_index(sessions),
          embedding_index |-> IF idx.exists THEN idx.embedding_index ELSE FALSE ]

update_index(session_metadata) ==
    /\ ingested.n < MaxIngest
    /\ ~index.malformed
    /\ index' = Ingest(index, session_metadata)
    /\ ingested' = [n |-> ingested.n + 1, meta |-> session_metadata, before |-> index]
    /\ UNCHANGED <<telVars, searchVars, sideVars>>

(* update_index, lines 176-181, as other processes see it.  open(path,    *)
(* 'w') truncates the live file, json.dump writes the document into it     *)
(* piece by piece, and the document is whole when the with block closes    *)
(* the file.  Until then the file holds a prefix of the document, which    *)
(* json.load refuses.                                                      *)
TornFile(idx) == [idx EXCEPT !.exists = TRUE, !.malformed = TRUE]

update_index_open(session_metadata) ==
    /\ ingested.n < MaxIngest
    /\ ~index.malformed
    /\ index' = TornFile(index)
    /\ ingested' = [n |-> ingested.n + 1, meta |-> session_metadata, before |-> index]
    /\ UNCHANGED <<telVars, searchVars, sideVars>>

update_index_close ==
    /\ index.malformed
    /\ ingested.n > 0
    /\ index' = Ingest(ingested.before, ingested.meta)
    /\ UNCHANGED <<ingested, telVars, searchVars, sideVars>>

IndexInit ==
    /\ index = NoIndexFile
    /\ ingested = [n |-> 0, meta |-> MetaD, before |-> NoIndexFile]

IndexNext == \E m \in Metas : update_index(m)

-----------------------------------------------------------------------------
(* Scoring, scripts/search_index.py.  Component scores are in 0 .. Scale,  *)
(* relevance scores in tenths of that (0.7 * b + 0.3 * t is 7*b + 3*t).    *)

Unit == 10 * Scale

Lower(w) == IF w = "Auth" THEN "auth" ELSE w

(* tokenize_query: the lowercased words of the query *)
tokenize_query(query) == [i \in DOMAIN query |-> Lower(query[i])]

(* calculate_temporal_score: exp(-age/30), 0.5 when there is no date *)
calculate_temporal_score(session) ==
    IF session.age = NoAge THEN Scale \div 2 ELSE Scale \div (2 ^ session.age)

Entry(session, rel, b, sem, t, mode) ==
    [ id |-> session.id, relevance_score |-> rel, bm25_score |-> b,
      semantic_score |-> sem, temporal_score |-> t, search_mode |-> mode ]

TemporalOnly(sessions) ==
    [i \in DOMAIN sessions |->
        Entry(sessions[i], 10 * calculate_temporal_score(sessions[i]), 0, NoInt,
              calculate_temporal_score(sessions[i]), "bm25")]

RECURSIVE MaxSeq(_)
MaxSeq(s) == IF s = <<>> THEN 0
             ELSE LET m == MaxSeq(Tail(s)) IN IF Head(s) > m THEN Head(s) ELSE m

(* BM25Okapi.get_scores with the stored doc_len, doc_freqs and idf put in  *)
(* place of the ones of the corpus at hand (lines 127-141).  The score     *)
(* vector has one slot per session at hand; the stored statistics have one *)
(* per document they were built from.  Adding the two raises ValueError    *)
(* unless the lengths agree or the stored side has length one (which is    *)
(* then broadcast).                                                        *)
Bm25Fails(sessions, bm25) ==
    /\ Len(bm25.doc_len) # Len(sessions)
    /\ Len(bm25.doc_len) # 1

StoredDoc(n, bm25, i) == IF Len(bm25.doc_len) = n THEN i ELSE 1

(* The stored idf, as BM25Okapi computed it when the index was built: for  *)
(* a word in df of N documents log(N - df + 0.5) - log(df + 0.5), which is *)
(* positive, zero or negative as N - 2 * df is; a negative idf is replaced *)
(* by epsilon (0.25) times the average idf of the vocabulary, which is     *)
(* negative itself when most words are in most documents.  Idf values are  *)
(* kept in units of 1 / IdfUnit so that the average needs no division.     *)
Words(toks) == { toks[i] : i \in DOMAIN toks }

Vocabulary(bm25) == UNION { Words(bm25.doc_freqs[d]) : d \in DOMAIN bm25.doc_freqs }

Df(bm25, q) == Cardinality({ d \in DOMAIN bm25.doc_freqs : q \in Words(bm25.doc_freqs[d]) })

IdfUnit(bm25) == 4 * Cardinality(Vocabulary(bm25))

IdfRaw(bm25, q) == IdfUnit(bm25) * (Len(bm25.doc_freqs) - 2 * Df(bm25, q))

Epsilon(bm25) ==
    Cardinality(Vocabulary(bm25)) * Len(bm25.doc_freqs)
    - 2 * SumSeq([d \in DOMAIN bm25.doc_freqs |-> Cardinality(Words(bm25.doc_freqs[d]))])

Idf(bm25, q) ==
    IF Df(bm25, q) = 0 THEN 0
    ELSE IF IdfRaw(bm25, q) < 0 THEN Epsilon(bm25)
    ELSE IdfRaw(bm25, q)

TermScore(bm25, d, q) ==
    LET tf == Count(bm25.doc_freqs[d], q)
    IN  IF tf = 0 THEN 0 ELSE Idf(bm25, q) * ((tf * Scale) \div (tf + bm25.doc_len[d]))

Bm25Raw(sessions, bm25, query_tokens) ==
    [i \in DOMAIN sessions |->
        SumSeq([j \in DOMAIN query_tokens |->
                   TermScore(bm25, StoredDoc(Len(sessions), bm25, i), query_tokens[j])])]

(* bm25_search *)
bm25_search(query, idx) ==
    LET sessions     == idx.sessions
        bm25_data    == idx.bm25_index
        query_tokens == tokenize_query(query)
    IN  IF ~bm25_data.present \/ sessions = <<>>
        THEN [i \in DOMAIN sessions |-> Entry(sessions[i], 0, 0, NoInt, Scale \div 2, "bm25")]
        ELSE IF query_tokens = <<>>
        THEN TemporalOnly(sessions)
        ELSE IF \A i \in DOMAIN sessions : sessions[i].bm25_tokens = <<>>
        THEN TemporalOnly(sessions)
        ELSE IF Bm25Fails(sessions, bm25_data)
        THEN TemporalOnly(sessions)
        ELSE LET raw      == Bm25Raw(sessions, bm25_data, query_tokens)
                 max_bm25 == IF MaxSeq(raw) > 0 THEN MaxSeq(raw) ELSE 1
                 norm(i)  == IF MaxSeq(raw) > 0 THEN (raw[i] * Scale) \div max_bm25
                                                ELSE raw[i] \div IdfUnit(bm25_data)
             IN  [i \in DOMAIN sessions |->
                    Entry(sessions[i],
                          7 * norm(i) + 3 * calculate_temporal_score(sessions[i]),
                          norm(i), NoInt, calculate_temporal_score(sessions[i]), "bm25")]

(* The cosine of the query with the embedding row made for session sid,    *)
(* shifted to 0 .. Scale                                                   *)
DenseScore(sid, query) == (3 * sid + Len(query)) % (Scale + 1)

NoScores == [ok |-> FALSE, scores |-> <<>>]

(* semantic_search: None, or one score per embedding row *)
semantic_search(query, idx, d) ==
    IF ~d.lib THEN NoScores
    ELSE IF ~idx.embedding_index THEN NoScores
    ELSE IF ~d.file THEN NoScores
    ELSE IF Len(d.rows) # Len(idx.sessions) THEN NoScores
    ELSE IF ~d.model THEN NoScores
    ELSE IF ~d.encode THEN NoScores
    ELSE [ok |-> TRUE, scores |-> [i \in DOMAIN d.rows |-> DenseScore(d.rows[i], query)]]

(* EmbeddingCache.load_embeddings, as a function of the cache c and of what *)
(* the embedding side d holds on disk: the cached array is returned        *)
(* whatever the file holds now; a missing file caches nothing.             *)
load_embeddings(c, d) ==
    IF c.has_embeddings THEN c
    ELSE IF ~d.file THEN c
    ELSE [c EXCEPT !.has_embeddings = TRUE, !.embeddings = d.rows]

(* EmbeddingCache.load_model: the cached model is returned; otherwise      *)
(* SentenceTransformer(model_name) is constructed, and a failure leaves    *)
(* the cache as it was.                                                    *)
load_model(c, d) ==
    IF c.model THEN c
    ELSE [c EXCEPT !.model = d.model,
                   !.loads = @ + 1,
                   !.failed = IF d.model THEN @ ELSE @ + 1,
                   !.after_failure = IF c.failed > 0 THEN @ + 1 ELSE @]

(* What semantic_search gets from the cache in state c *)
Effective(d, c) ==
    [d EXCEPT !.file  = c.has_embeddings \/ d.file,
              !.rows  = IF c.has_embeddings THEN c.embeddings ELSE d.rows,
              !.model = c.model \/ d.model]

(* How far a semantic_search call gets (lines 273-301) *)
SemanticStage(idx, d, c) ==
    IF ~d.lib \/ ~idx.embedding_index THEN "none"
    ELSE IF ~load_embeddings(c, d).has_embeddings THEN "no_embeddings"
    ELSE IF Len(load_embeddings(c, d).embeddings) # Len(idx.sessions) THEN "mismatch"
    ELSE "model"

(* The cache and the warnings after a semantic_search call *)
CacheAfter(idx, d, c) ==
    IF SemanticStage(idx, d, c) = "none" THEN c
    ELSE IF SemanticStage(idx, d, c) = "model" THEN load_model(load_embeddings(c, d), d)
    ELSE load_embeddings(c, d)

WarnAfter(idx, d, c, w) ==
    IF SemanticStage(idx, d, c) = "mismatch" THEN [w EXCEPT !.mismatch = @ + 1]
    ELSE IF SemanticStage(idx, d, c) = "model" /\ ~c.model /\ ~d.model
    THEN [w EXCEPT !.model = @ + 1]
    ELSE w

(* search_sessions, lines 586-650: the modes that call semantic_search *)
CallsSemantic(search_mode, fidx, d) ==
    \/ search_mode \in {"semantic", "hybrid"}
    \/ search_mode = "auto" /\ fidx.embedding_index /\ d.lib

(* hybrid_search whose fallback takes the BM25 score for the relevance *)
hybrid_search_raw_fallback(query, idx, d) ==
    LET sessions     == idx.sessions
        bm25_results == bm25_search(query, idx)
    IN  [i \in DOMAIN sessions |->
            Entry(sessions[i], 10 * bm25_results[i].bm25_score,
                  bm25_results[i].bm25_score, NoInt,
                  bm25_results[i].temporal_score, "bm25")]

(* hybrid_search *)
hybrid_search(query, idx, d) ==
    LET sessions     == idx.sessions
        bm25_results == bm25_search(query, idx)
        sem          == semantic_search(query, idx, d)
        usable       == sem.ok /\ Len(sem.scores) = Len(sessions)
    IN  [i \in DOMAIN sessions |->
            IF usable
            THEN Entry(sessions[i], 5 * bm25_results[i].bm25_score + 5 * sem.scores[i],
                       bm25_results[i].bm25_score, sem.scores[i],
                       bm25_results[i].temporal_score, "hybrid")
            ELSE Entry(sessions[i], bm25_results[i].relevance_score,
                       bm25_results[i].bm25_score, NoInt,
                       bm25_results[i].temporal_score, "bm25")]

(* simple_relevance_score: summary weighs 3, topics 2, files 1 and issues  *)
(* 1 (files and issues are empty in the sessions at hand), over 7          *)
simple_relevance_score(query, session) ==
    LET terms == { Lower(query[i]) : i \in DOMAIN query }
        inSum == Cardinality(terms \cap Words(session.summary))
        inTop == Cardinality(terms \cap Words(session.topics))
    IN  IF terms = {} THEN 0
        ELSE ((3 * inSum + 2 * inTop) * Unit) \div (7 * Cardinality(terms))

SimpleScored(query, sessions) ==
    [i \in DOMAIN sessions |->
        Entry(sessions[i], simple_relevance_score(query, sessions[i]),
              NoInt, NoInt, NoInt, "simple")]

(* search_sessions, lines 550-581: the filters and the filtered index *)
NoFilter == "none"

Matches(session, session_filter, topics_filter) ==
    /\ session_filter = 0 \/ session_filter = session.id
    /\ \/ topics_filter = NoFilter
       \/ \E i \in DOMAIN session.topics : session.topics[i] = topics_filter

Filtered(idx, session_filter, topics_filter) ==
    [idx EXCEPT !.sessions =
        SelectSeqBy(idx.sessions,
                    { idx.sessions[i].id : i \in { j \in DOMAIN idx.sessions :
                        Matches(idx.sessions[j], session_filter, topics_filter) } })]

(* search_sessions, lines 586-650: the mode branches.  The result is the   *)
(* resolved mode, the scored list, and whether semantic mode found no      *)
(* scores.                                                                 *)
Branch(mr, sc, un) == [mode_resolved |-> mr, scored |-> sc, unavailable |-> un]

Bm25OrSimple(query, fidx, use_bm25) ==
    IF use_bm25 /\ fidx.bm25_index.present
    THEN Branch("bm25", bm25_search(query, fidx), FALSE)
    ELSE Branch("simple", SimpleScored(query, fidx.sessions), FALSE)

ModeBranch(query, fidx, d, search_mode, use_bm25) ==
    IF search_mode = "simple"
    THEN Branch("simple", SimpleScored(query, fidx.sessions), FALSE)
    ELSE IF search_mode = "semantic"
    THEN LET sem == semantic_search(query, fidx, d)
         IN  IF ~sem.ok THEN Branch("semantic", <<>>, TRUE)
             ELSE Branch("semantic",
                         [i \in DOMAIN fidx.sessions |->
                             Entry(fidx.sessions[i], 10 * sem.scores[i], NoInt,
                                   sem.scores[i], NoInt, "semantic")],
                         FALSE)
    ELSE IF search_mode \in {"hybrid", "auto"}
    THEN IF (fidx.embedding_index /\ d.lib) \/ search_mode = "hybrid"
         THEN Branch("hybrid", hybrid_search(query, fidx, d), FALSE)
         ELSE Branch("bm25", bm25_search(query, fidx), FALSE)
    ELSE Bm25OrSimple(query, fidx, use_bm25)

(* scored.sort(key=lambda s: s['relevance_score'], reverse=True) *)
SortByRelevance(s) ==
    LET sorted == SortPairsDesc([i \in DOMAIN s |-> [k |-> s[i].relevance_score, v |-> s[i]]])
    IN  [i \in DOMAIN sorted |-> sorted[i].v]

(* scored[:limit], a Python slice: a negative limit counts from the end *)
Slice(s, limit) ==
    IF limit >= 0
    THEN SubSeq(s, 1, IF limit < Len(s) THEN limit ELSE Len(s))
    ELSE SubSeq(s, 1, IF Len(s) + limit > 0 THEN Len(s) + limit ELSE 0)

-----------------------------------------------------------------------------
(* The collector after construction: TelemetryCollector.__init__ and       *)
(* BatchedJSONLWriter.__init__                                             *)

NewWriter == [buffer |-> <<>>, file |-> <<>>, last_flush |-> 0]

TelInit ==
    /\ current_events = << >>
    /\ writer = NewWriter
    /\ now = 0
    /\ nextId = 1
    /\ faults = 0
    /\ handed = <<>>

EventTypes == {"smart_recall_completed"}

TelNext ==
    \/ \E type \in EventTypes, context \in Contexts : StartEvent(type, context)
    \/ \E id \in 1 .. MaxEvents, data \in Patches : UpdateEvent(id, data)
    \/ \E id \in 1 .. MaxEvents, outcome \in Outcomes : EndEvent(id, outcome)
    \/ \E event \in LoggedEvents : LogEvent(event)
    \/ Flush
    \/ Tick

-----------------------------------------------------------------------------
(* The rest of the process at rest: no thread inside the collector, an     *)
(* empty EmbeddingCache, nothing printed, no index writer at work, an      *)
(* empty quality log, no smart_recall and no redact call running.          *)

PerThread == 2      \* events each thread starts and ends

ThreadIds == {1, 2}

ThreadIdle == [pc |-> "idle", id |-> Null, left |-> 0]

(* EmbeddingCache.__new__, lines 180-185: nothing cached.  loads counts    *)
(* the SentenceTransformer constructions, failed the ones that raised.     *)
NewCache == [embeddings |-> <<>>, has_embeddings |-> FALSE, model |-> FALSE,
             loads |-> 0, failed |-> 0, after_failure |-> 0]

NoWarnings == [mismatch |-> 0, model |-> 0]

WriterIds == {1, 2}

WriterIdle == [pc |-> "idle", kind |-> ABSENT, read |-> NoIndexFile, meta |-> MetaD]

NoRecall == [pc |-> "idle", query |-> <<>>, search_mode |-> ABSENT, limit |-> 0,
             min_relevance |-> 0, results |-> <<>>, event_id |-> Null]

NoRedaction == [pc |-> "idle", hits |-> <<>>, redacted |-> <<>>, findings |-> <<>>]

SideIdle ==
    /\ threads = [t \in ThreadIds |-> ThreadIdle]
    /\ cache = NewCache
    /\ stderr = NoWarnings
    /\ writers = [w \in WriterIds |-> WriterIdle]
    /\ quality_log = <<>>
    /\ recall = NoRecall
    /\ redaction = NoRedaction

-----------------------------------------------------------------------------
(* search_sessions, scripts/search_index.py lines 474-739, step by step    *)

Idle      == [kind |-> "none", list |-> <<>>]
NoBranch  == Branch(ABSENT, <<>>, FALSE)
NoCall    == [query |-> <<>>, search_mode |-> ABSENT, limit |-> 0, session_filter |-> 0,
              topics_filter |-> NoFilter, use_bm25 |-> TRUE]

Queries        == { <<"Auth", "jwt">>, <<"bug">>, <<>> }
Modes          == { "auto", "hybrid", "bm25", "semantic", "simple", "other" }
Limits         == { -1, 0, 2, 5 }
Filters        == { <<0, NoFilter>>, <<1, NoFilter>>, <<0, "security">>, <<0, "unrelated">> }

Calls ==
    { [query |-> q, search_mode |-> m, limit |-> k, session_filter |-> f[1],
       topics_filter |-> f[2], use_bm25 |-> u]
      : q \in Queries, m \in Modes, k \in Limits, f \in Filters, u \in BOOLEAN }

(* lines 505-530: the event is started with the query and the config *)
SearchBegin(args) ==
    /\ pc = "idle"
    /\ call' = args
    /\ eid' = nextId
    /\ current_events' =
          With(current_events, nextId,
               NewEvent(nextId, now, "recall_triggered",
                        [EmptyPatch EXCEPT !.query = DictQuery(args.query),
                                           !.mode = args.search_mode]))
    /\ nextId' = nextId + 1
    /\ pc' = "load"
    /\ UNCHANGED <<writer, now, faults, handed, loaded, scored, result, dense, indexVars, sideVars>>

(* lines 532-548: the index file is read *)
SearchLoad ==
    /\ pc = "load"
    /\ IF ~index.exists
       THEN /\ FinishEvent(current_events, eid, Outcome(FALSE, "index_not_found", ABSENT))
            /\ result' = [kind |-> "returned", list |-> <<>>]
            /\ pc' = "done"
            /\ UNCHANGED loaded
       ELSE IF index.malformed
       THEN /\ pc' = "except"
            /\ UNCHANGED <<current_events, writer, faults, handed, loaded, result>>
       ELSE /\ loaded' = index
            /\ pc' = "score"
            /\ UNCHANGED <<current_events, writer, faults, handed, result>>
    /\ UNCHANGED <<now, nextId, call, eid, scored, dense, indexVars, sideVars>>

(* lines 550-652: filters and scoring; an exception raised on the way     *)
(* goes to the handler                                                     *)
SearchScore ==
    /\ pc = "score"
    /\ LET fidx == Filtered(loaded, call.session_filter, call.topics_filter)
           br   == ModeBranch(call.query, fidx, Effective(dense, cache),
                              call.search_mode, call.use_bm25)
           uses == CallsSemantic(call.search_mode, fidx, dense)
       IN  \E raises \in BOOLEAN :
           IF raises
           THEN /\ pc' = "except"
                /\ UNCHANGED <<current_events, writer, faults, handed, scored, result,
                               cache, stderr>>
           ELSE /\ cache' = IF uses THEN CacheAfter(fidx, dense, cache) ELSE cache
                /\ stderr' = IF uses THEN WarnAfter(fidx, dense, cache, stderr) ELSE stderr
                /\ IF br.unavailable
                   THEN /\ FinishEvent(current_events, eid,
                                       Outcome(FALSE, "semantic_search_unavailable",
                                               "DependencyError"))
                        /\ result' = [kind |-> "returned", list |-> <<>>]
                        /\ pc' = "done"
                        /\ UNCHANGED scored
                   ELSE /\ scored' = br
                        /\ pc' = "rank"
                        /\ UNCHANGED <<current_events, writer, faults, handed, result>>
    /\ UNCHANGED <<now, nextId, call, eid, loaded, dense, indexVars,
                   threads, writers, quality_log, recall, redaction>>

(* lines 654-713: sort, limit, the telemetry update and the end of the     *)
(* event                                                                   *)
SearchRank ==
    /\ pc = "rank"
    /\ LET results == Slice(SortByRelevance(scored.scored), call.limit)
           patch   == [EmptyPatch EXCEPT !.mode_resolved = scored.mode_resolved,
                                         !.count = Len(results)]
       IN  /\ FinishEvent(AfterUpdate(current_events, eid, patch), eid,
                          Outcome(TRUE, ABSENT, ABSENT))
           /\ result' = [kind |-> "pending", list |-> results]
    /\ pc' = "post"
    /\ UNCHANGED <<now, nextId, call, eid, loaded, scored, dense, indexVars, sideVars>>

(* lines 715-730: the evaluation thread is started and the results are     *)
(* returned; Thread.start can raise                                        *)
SearchPost ==
    /\ pc = "post"
    /\ \E raises \in BOOLEAN :
       IF raises
       THEN /\ pc' = "except"
            /\ UNCHANGED result
       ELSE /\ pc' = "done"
            /\ result' = [result EXCEPT !.kind = "returned"]
    /\ UNCHANGED <<telVars, call, eid, loaded, scored, dense, indexVars, sideVars>>

(* lines 732-739: the handler records the error, ends the event and        *)
(* raises again                                                            *)
SearchExcept ==
    /\ pc = "except"
    /\ LET patch == [EmptyPatch EXCEPT !.error = "message", !.error_type = "Exception"]
       IN  FinishEvent(AfterUpdate(current_events, eid, patch), eid,
                       Outcome(FALSE, ABSENT, ABSENT))
    /\ result' = [kind |-> "raised", list |-> <<>>]
    /\ pc' = "done"
    /\ UNCHANGED <<now, nextId, call, eid, loaded, scored, dense, indexVars, sideVars>>

(* An index file as the indexer leaves it, and the embedding side *)
IndexABC  == Ingest(Ingest(Ingest(NoIndexFile, MetaA), MetaB), MetaC)
IndexABCD == Ingest(IndexABC, MetaD)
IndexD    == Ingest(NoIndexFile, MetaD)
IndexA    == Ingest(NoIndexFile, MetaA)
IndexAEC  == Ingest(Ingest(Ingest(NoIndexFile, MetaA), MetaE), MetaC)

IndexFiles ==
    { NoIndexFile, IndexABC, IndexABCD, IndexD, IndexA, IndexAEC,
      [IndexABC EXCEPT !.malformed = TRUE] }

SessionIds(idx) == [i \in DOMAIN idx.sessions |-> idx.sessions[i].id]

(* embed_sessions.py writes one row per session, in session order, and     *)
(* records embedding_index in the index file.                              *)
DenseOk(idx) == [lib |-> TRUE, file |-> TRUE, rows |-> SessionIds(idx),
                 model |-> TRUE, encode |-> TRUE]

DenseStates(idx) ==
    { DenseOk(idx),
      [DenseOk(idx) EXCEPT !.lib = FALSE],
      [DenseOk(idx) EXCEPT !.file = FALSE],
      [DenseOk(idx) EXCEPT !.rows = SubSeq(SessionIds(idx), 1, Len(idx.sessions) - 1)],
      [DenseOk(idx) EXCEPT !.model = FALSE],
      [DenseOk(idx) EXCEPT !.encode = FALSE] }

SearchIdle ==
    /\ pc = "idle"
    /\ call = NoCall
    /\ eid = Null
    /\ loaded = NoIndexFile
    /\ scored = NoBranch
    /\ result = Idle

SearchInit ==
    /\ TelInit
    /\ SearchIdle
    /\ SideIdle
    /\ \E idx \in IndexFiles :
          \/ /\ index = idx
             /\ dense = DenseOk(idx)
          \/ /\ idx.exists /\ ~idx.malformed
             /\ index = [idx EXCEPT !.embedding_index = TRUE]
             /\ dense \in DenseStates(idx)
    /\ ingested = [n |-> 0, meta |-> MetaD, before |-> NoIndexFile]

SearchNext ==
    \/ \E args \in Calls : SearchBegin(args)
    \/ SearchLoad
    \/ SearchScore
    \/ SearchRank
    \/ SearchPost
    \/ SearchExcept

SpecSearch == SearchInit /\ [][SearchNext]_vars

-----------------------------------------------------------------------------
(* The collector on its own, and the indexer on its own *)

AloneInit ==
    /\ TelInit
    /\ SearchIdle
    /\ IndexInit
    /\ SideIdle
    /\ dense = DenseOk(NoIndexFile)

SpecTel == AloneInit /\ [][TelNext]_vars

SpecIndex == AloneInit /\ [][IndexNext]_vars

(* The life of events: start_event, update_event, end_event *)
LifeNext ==
    \/ \E type \in EventTypes, context \in Contexts : StartEvent(type, context)
    \/ \E id \in 1 .. MaxEvents, data \in Patches : UpdateEvent(id, data)
    \/ \E id \in 1 .. MaxEvents, outcome \in Outcomes : EndEvent(id, outcome)

SpecLife == AloneInit /\ [][LifeNext]_vars

(* The writer under one-shot events: log_event, flush and the clock *)
WriterNext ==
    \/ \E event \in LoggedEvents : LogEvent(event)
    \/ Flush
    \/ Tick

SpecWriter == AloneInit /\ [][WriterNext]_vars

Spec == SpecSearch

-----------------------------------------------------------------------------
(* One search next to an indexer process that writes the index file *)

ConcCalls ==
    { [NoCall EXCEPT !.query = <<"Auth", "jwt">>, !.search_mode = m, !.limit = 2]
      : m \in {"bm25", "simple"} }

ConcInit ==
    /\ TelInit
    /\ SearchIdle
    /\ SideIdle
    /\ index = IndexABC
    /\ dense = DenseOk(IndexABC)
    /\ ingested = [n |-> 0, meta |-> MetaD, before |-> NoIndexFile]

ConcNext ==
    \/ \E args \in ConcCalls : SearchBegin(args)
    \/ SearchLoad
    \/ SearchScore
    \/ SearchRank
    \/ SearchPost
    \/ SearchExcept
    \/ \E m \in Metas : update_index_open(m)
    \/ update_index_close

SpecConc == ConcInit /\ [][ConcNext]_vars

-----------------------------------------------------------------------------
(* Two threads in the collector.  Each starts an event and ends it,        *)
(* PerThread times.  end_event runs into BatchedJSONLWriter.append, whose  *)
(* statements are steps of their own: neither the collector nor the        *)
(* batched writer holds a lock, so the threads interleave between them.    *)
(* JSONLWriter.append_batch writes under flock, which makes the file write *)
(* one step.  File writes succeed here.                                    *)

SetThread(t, pc1) == [threads EXCEPT ![t].pc = pc1]

(* start_event *)
ThreadStart(t) ==
    /\ threads[t].pc = "idle"
    /\ threads[t].left > 0
    /\ current_events' = With(current_events, nextId,
                              NewEvent(nextId, now, "recall_triggered", EmptyPatch))
    /\ nextId' = nextId + 1
    /\ threads' = [threads EXCEPT ![t] = [pc |-> "end", id |-> nextId, left |-> @.left - 1]]
    /\ UNCHANGED <<writer, now, faults, handed, searchVars, indexVars,
                   cache, stderr, writers, quality_log, recall, redaction>>

(* end_event, lines 160-175, into append, line 171: self.buffer.append *)
ThreadPush(t) ==
    /\ threads[t].pc = "end"
    /\ LET event == WithOutcome(current_events[threads[t].id], Outcome(TRUE, ABSENT, ABSENT))
       IN  /\ writer' = [writer EXCEPT !.buffer = Append(@, event)]
           /\ handed' = Append(handed, event)
    /\ threads' = SetThread(t, "test")
    /\ UNCHANGED <<current_events, now, nextId, faults, searchVars, indexVars,
                   cache, stderr, writers, quality_log, recall, redaction>>

(* append, lines 173-181: should_flush *)
ThreadTest(t) ==
    /\ threads[t].pc = "test"
    /\ threads' = SetThread(t, IF ShouldFlush(writer, now) THEN "flush" ELSE "del")
    /\ UNCHANGED <<telVars, searchVars, indexVars,
                   cache, stderr, writers, quality_log, recall, redaction>>

(* flush, lines 185-189: an empty buffer returns; append_batch writes the  *)
(* buffer as it is at that moment                                          *)
ThreadWrite(t) ==
    /\ threads[t].pc = "flush"
    /\ IF writer.buffer = <<>>
       THEN /\ threads' = SetThread(t, "del")
            /\ UNCHANGED writer
       ELSE /\ writer' = [writer EXCEPT !.file = @ \o writer.buffer]
            /\ threads' = SetThread(t, "clear")
    /\ UNCHANGED <<current_events, now, nextId, faults, handed, searchVars, indexVars,
                   cache, stderr, writers, quality_log, recall, redaction>>

(* flush, lines 190-191: self.buffer.clear() and last_flush *)
ThreadClear(t) ==
    /\ threads[t].pc = "clear"
    /\ writer' = [writer EXCEPT !.buffer = <<>>, !.last_flush = now]
    /\ threads' = SetThread(t, "del")
    /\ UNCHANGED <<current_events, now, nextId, faults, handed, searchVars, indexVars,
                   cache, stderr, writers, quality_log, recall, redaction>>

(* end_event, line 178: del self.current_events[event_id] *)
ThreadDel(t) ==
    /\ threads[t].pc = "del"
    /\ current_events' = Without(current_events, threads[t].id)
    /\ threads' = SetThread(t, "idle")
    /\ UNCHANGED <<writer, now, nextId, faults, handed, searchVars, indexVars,
                   cache, stderr, writers, quality_log, recall, redaction>>

ThreadsDone == \A t \in ThreadIds : threads[t].pc = "idle" /\ threads[t].left = 0

(* The threads are joined and the collector is flushed: flush succeeds *)
FinalFlush ==
    /\ ThreadsDone
    /\ \E o \in FlushOutcomes(writer, now, FALSE) : writer' = o.w
    /\ threads' = [t \in ThreadIds |-> [threads[t] EXCEPT !.pc = "flushed"]]
    /\ UNCHANGED <<current_events, now, nextId, faults, handed, searchVars, indexVars,
                   cache, stderr, writers, quality_log, recall, redaction>>

ThreadsInit ==
    /\ TelInit
    /\ SearchIdle
    /\ IndexInit
    /\ dense = DenseOk(NoIndexFile)
    /\ threads = [t \in ThreadIds |-> [ThreadIdle EXCEPT !.left = PerThread]]
    /\ cache = NewCache
    /\ stderr = NoWarnings
    /\ writers = [w \in WriterIds |-> WriterIdle]
    /\ quality_log = <<>>
    /\ recall = NoRecall
    /\ redaction = NoRedaction

ThreadsNext ==
    \/ \E t \in ThreadIds : ThreadStart(t)
    \/ \E t \in ThreadIds : ThreadPush(t)
    \/ \E t \in ThreadIds : ThreadTest(t)
    \/ \E t \in ThreadIds : ThreadWrite(t)
    \/ \E t \in ThreadIds : ThreadClear(t)
    \/ \E t \in ThreadIds : ThreadDel(t)
    \/ FinalFlush

SpecThreads == ThreadsInit /\ [][ThreadsNext]_vars

-----------------------------------------------------------------------------
(* One process that searches several times, next to the indexer and to     *)
(* embed_sessions.py.  The EmbeddingCache and the warnings live as long as *)
(* the process.                                                            *)

MaxSearches == 2    \* search_sessions calls per behaviour

ProcCalls ==
    { [NoCall EXCEPT !.query = <<"Auth", "jwt">>, !.search_mode = m, !.limit = 5,
                     !.topics_filter = f]
      : m \in {"semantic", "hybrid"}, f \in {NoFilter, "security"} }

ProcMetas == {MetaA2, MetaD}

(* the caller has its answer and calls again *)
SearchAgain ==
    /\ pc = "done"
    /\ nextId <= MaxSearches
    /\ pc' = "idle"
    /\ call' = NoCall
    /\ eid' = Null
    /\ loaded' = NoIndexFile
    /\ scored' = NoBranch
    /\ result' = Idle
    /\ UNCHANGED <<telVars, dense, indexVars, sideVars>>

(* embed_sessions.py main, lines 229-251: one row per session of the index *)
(* read, in its order; the index gets its embedding_index entry.  Without  *)
(* --force an existing embeddings file ends the run.                       *)
embed_sessions(force) ==
    /\ index.exists /\ ~index.malformed
    /\ index.sessions # <<>>
    /\ force \/ ~dense.file
    /\ dense' = [dense EXCEPT !.file = TRUE, !.rows = SessionIds(index)]
    /\ index' = [index EXCEPT !.embedding_index = TRUE]
    /\ UNCHANGED <<telVars, pc, call, eid, loaded, scored, result, ingested, sideVars>>

ProcInit ==
    /\ TelInit
    /\ SearchIdle
    /\ SideIdle
    /\ index = [IndexABC EXCEPT !.embedding_index = TRUE]
    /\ dense \in { DenseOk(IndexABC), [DenseOk(IndexABC) EXCEPT !.model = FALSE] }
    /\ ingested = [n |-> 0, meta |-> MetaD, before |-> NoIndexFile]

ProcNext ==
    \/ \E args \in ProcCalls : SearchBegin(args)
    \/ SearchLoad
    \/ SearchScore
    \/ SearchRank
    \/ SearchPost
    \/ SearchExcept
    \/ SearchAgain
    \/ \E m \in ProcMetas : update_index(m)
    \/ \E force \in BOOLEAN : embed_sessions(force)

SpecProcess == ProcInit /\ [][ProcNext]_vars

-----------------------------------------------------------------------------
(* smart_recall, scripts/smart_recall.py lines 154-299, around one         *)
(* search_sessions call, and the quality log it writes to                  *)

RecallLimits   == { -1, 0, 1, 2 }
MinRelevances  == { 0, 3 * Scale, 6 * Scale }
RecallModes    == { "auto", "simple", "hybrid" }
RecallQueries  == { <<"Auth", "jwt">>, <<"bug">> }

(* [result for result in results if result.get('relevance_score', 0) >=    *)
(* min_relevance]                                                          *)
RECURSIVE AtLeast(_, _)
AtLeast(results, min_relevance) ==
    IF results = <<>> THEN <<>>
    ELSE IF Head(results).relevance_score >= min_relevance
         THEN <<Head(results)>> \o AtLeast(Tail(results), min_relevance)
         ELSE AtLeast(Tail(results), min_relevance)

(* lines 237-245: filter by minimum relevance, then the top N *)
FinalResults(results, min_relevance, limit) ==
    Slice(AtLeast(results, min_relevance), limit)

(* QualityScorer.evaluate, lines 153-193: the record that goes to the      *)
(* quality log.  The keys it sets are event_id, timestamp, query,          *)
(* result_count and search_mode; NoInt marks a key that is not set.        *)
QualityRecord(event_id, t, n, mode) ==
    [ event_id |-> event_id, recall_event_id |-> NoInt, timestamp |-> t,
      result_count |-> n, search_mode |-> mode ]

(* EventCorrelator.get_event_chain: the lines of the telemetry log with    *)
(* this event_id, and the lines of the quality log whose recall_event_id   *)
(* is this event_id (the chain holds the first of each).                   *)
get_event_chain(event_id, telemetry_log, quality) ==
    [ telemetry |-> { i \in DOMAIN telemetry_log : telemetry_log[i].event_id = event_id },
      quality   |-> { i \in DOMAIN quality : quality[i].recall_event_id = event_id } ]

(* EventCorrelator.build_event_timeline on one log: the lines whose        *)
(* event_id or recall_event_id is this event_id                            *)
build_event_timeline(event_id, log) ==
    { i \in DOMAIN log : log[i].event_id = event_id \/ log[i].recall_event_id = event_id }

(* lines 183-216: no index file, no recall; otherwise the context is       *)
(* analyzed and the analysis logged with log_event                         *)
RecallBegin ==
    /\ recall.pc = "idle"
    /\ IF ~index.exists
       THEN /\ recall' = [recall EXCEPT !.pc = "done"]
            /\ UNCHANGED <<writer, faults, handed>>
       ELSE /\ LET e == Stamped([EmptyPatch EXCEPT !.event_id = Null,
                                                   !.event_type = "context_analyzed"], now)
               IN  /\ \E o \in AppendOutcomes(writer, e, now, MayFail) :
                        /\ writer' = o.w
                        /\ faults' = IF o.failed THEN faults + 1 ELSE faults
                   /\ handed' = Append(handed, e)
            /\ recall' = [recall EXCEPT !.pc = "search"]
    /\ UNCHANGED <<current_events, now, nextId, searchVars, indexVars,
                   threads, cache, stderr, writers, quality_log, redaction>>

(* lines 228-235: search_sessions(query, index_path, search_mode,          *)
(* limit=limit * 2)                                                        *)
RecallArgs ==
    [NoCall EXCEPT !.query = recall.query, !.search_mode = recall.search_mode,
                   !.limit = recall.limit * 2]

RecallSearch ==
    /\ recall.pc = "search"
    /\ SearchBegin(RecallArgs)

(* lines 237-299: filter, truncate, the smart_recall_completed event, the  *)
(* quality evaluation (gated by sampling rate and budget) and the end of   *)
(* the event                                                               *)
RecallFinish ==
    /\ recall.pc = "search"
    /\ pc = "done"
    /\ result.kind = "returned"
    /\ LET final == FinalResults(result.list, recall.min_relevance, recall.limit)
           event == NewEvent(nextId, now, "smart_recall_completed",
                             [EmptyPatch EXCEPT !.query = DictQuery(recall.query),
                                                !.mode = recall.search_mode,
                                                !.count = Len(final)])
       IN  /\ FinishEvent(With(current_events, nextId, event), nextId,
                          Outcome(TRUE, ABSENT, ABSENT))
           /\ \E should_evaluate \in BOOLEAN :
                 quality_log' =
                    IF should_evaluate
                    THEN Append(quality_log,
                                QualityRecord(nextId, now, Len(final), recall.search_mode))
                    ELSE quality_log
           /\ recall' = [recall EXCEPT !.pc = "done", !.results = final, !.event_id = nextId]
    /\ nextId' = nextId + 1
    /\ UNCHANGED <<now, searchVars, indexVars, threads, cache, stderr, writers, redaction>>

(* an exception of search_sessions leaves smart_recall as it is *)
RecallRaise ==
    /\ recall.pc = "search"
    /\ pc = "done"
    /\ result.kind = "raised"
    /\ recall' = [recall EXCEPT !.pc = "raised"]
    /\ UNCHANGED <<telVars, searchVars, indexVars,
                   threads, cache, stderr, writers, quality_log, redaction>>

RecallInit ==
    /\ TelInit
    /\ SearchIdle
    /\ \E idx \in {NoIndexFile, IndexABC, IndexABCD} :
          /\ index = idx
          /\ dense = DenseOk(idx)
    /\ ingested = [n |-> 0, meta |-> MetaD, before |-> NoIndexFile]
    /\ threads = [t \in ThreadIds |-> ThreadIdle]
    /\ cache = NewCache
    /\ stderr = NoWarnings
    /\ writers = [w \in WriterIds |-> WriterIdle]
    /\ quality_log = <<>>
    /\ \E q \in RecallQueries, m \in RecallModes, k \in RecallLimits, r \in MinRelevances :
          recall = [NoRecall EXCEPT !.query = q, !.search_mode = m, !.limit = k,
                                    !.min_relevance = r]
    /\ redaction = NoRedaction

RecallNext ==
    \/ RecallBegin
    \/ RecallSearch
    \/ SearchLoad
    \/ SearchScore
    \/ SearchRank
    \/ SearchPost
    \/ SearchExcept
    \/ RecallFinish
    \/ RecallRaise

SpecRecall == RecallInit /\ [][RecallNext]_vars

-----------------------------------------------------------------------------
(* The life of events whose callers pass the keys the collector sets       *)
(* itself: a context or a patch is any dict, and "event_id", "timestamp"   *)
(* and "event_type" are keys like the others.                              *)

Later == MaxClock + 1     \* a timestamp no start_event of the behaviour reads

IdentityContexts ==
    { EmptyPatch,
      [EmptyPatch EXCEPT !.event_type = "context_analyzed"],
      [EmptyPatch EXCEPT !.timestamp = Later] }

IdentityPatches ==
    { [EmptyPatch EXCEPT !.count = 0],
      [EmptyPatch EXCEPT !.event_id = Null],
      [EmptyPatch EXCEPT !.timestamp = Later, !.event_type = "context_analyzed"] }

IdentityNext ==
    \/ \E type \in EventTypes, context \in IdentityContexts : StartEvent(type, context)
    \/ \E id \in 1 .. MaxEvents, data \in IdentityPatches : UpdateEvent(id, data)
    \/ \E id \in 1 .. MaxEvents, outcome \in Outcomes : EndEvent(id, outcome)
    \/ Tick

SpecIdentity == AloneInit /\ [][IdentityNext]_vars

-----------------------------------------------------------------------------
(* SecretRedactor.redact, scripts/redact_secrets.py lines 265-361.  A text *)
(* of TextLen characters is the list of its characters, each written as    *)
(* its position 1 .. TextLen, so that a character of the redacted text     *)
(* tells where it came from.  What the patterns and the entropy scan match *)
(* in the text is the input: a list of matches with a span [start, end)    *)
(* counted from 0, in the order the scans find them.                       *)

TextLen == 4        \* characters of the text
MaxHits == 2        \* matches of the patterns and the entropy scan in it

Placeholder == 0    \* "[REDACTED:name]", one element of the redacted text

TheText == [i \in 1 .. TextLen |-> i]

Spans == { <<a, b>> \in (0 .. TextLen) \X (0 .. TextLen) : a < b }

RawMatches ==
    { [start |-> sp[1], end |-> sp[2], category |-> c, whitelisted |-> w]
      : sp \in Spans, c \in {"pattern", "entropy"}, w \in BOOLEAN }

RECURSIVE SeqsUpTo(_, _)
SeqsUpTo(S, n) ==
    IF n = 0 THEN { <<>> }
    ELSE SeqsUpTo(S, n - 1)
         \cup { Append(s, x) : s \in { t \in SeqsUpTo(S, n - 1) : Len(t) = n - 1 }, x \in S }

(* _detect_by_patterns and _detect_by_entropy: whitelisted matches are     *)
(* skipped                                                                 *)
Detections(hits, category) ==
    SelectSeq(hits, LAMBDA h : h.category = category /\ ~h.whitelisted)

Touches(h, g) == h.start < g.end /\ g.start < h.end

(* lines 293-305: the pattern detections, then the entropy detections that *)
(* overlap none of them                                                    *)
all_detections(hits) ==
    LET regex == Detections(hits, "pattern")
    IN  regex \o SelectSeq(Detections(hits, "entropy"),
                           LAMBDA h : \A i \in DOMAIN regex : ~Touches(h, regex[i]))

(* line 309: all_detections.sort(key=lambda d: d[0], reverse=True) *)
SortByStart(s) ==
    LET sorted == SortPairsDesc([i \in DOMAIN s |-> [k |-> s[i].start, v |-> s[i]]])
    IN  [i \in DOMAIN sorted |-> sorted[i].v]

(* lines 311-317: a detection is kept when it ends at or before the start  *)
(* of the one kept last                                                    *)
RECURSIVE Dedupe(_, _)
Dedupe(s, covered_up_to) ==
    IF s = <<>> THEN <<>>
    ELSE IF Head(s).end <= covered_up_to
         THEN <<Head(s)>> \o Dedupe(Tail(s), Head(s).start)
         ELSE Dedupe(Tail(s), covered_up_to)

(* lines 319-342: redacted[:start] + placeholder + redacted[end:] for each *)
(* kept detection, from the end of the text to its start                   *)
RECURSIVE Replace(_, _)
Replace(redacted, deduped) ==
    IF deduped = <<>> THEN redacted
    ELSE Replace(SubSeq(redacted, 1, Head(deduped).start)
                    \o <<Placeholder>>
                    \o SubSeq(redacted, Head(deduped).end + 1, Len(redacted)),
                 Tail(deduped))

RedactCall ==
    /\ redaction.pc = "idle"
    /\ LET deduped == Dedupe(SortByStart(all_detections(redaction.hits)), TextLen)
       IN  redaction' = [redaction EXCEPT !.pc = "done",
                                          !.redacted = Replace(TheText, deduped),
                                          !.findings = deduped]
    /\ UNCHANGED <<telVars, searchVars, indexVars,
                   threads, cache, stderr, writers, quality_log, recall>>

RedactInit ==
    /\ TelInit
    /\ SearchIdle
    /\ IndexInit
    /\ dense = DenseOk(NoIndexFile)
    /\ threads = [t \in ThreadIds |-> ThreadIdle]
    /\ cache = NewCache
    /\ stderr = NoWarnings
    /\ writers = [w \in WriterIds |-> WriterIdle]
    /\ quality_log = <<>>
    /\ recall = NoRecall
    /\ \E hits \in SeqsUpTo(RawMatches, MaxHits) : redaction = [NoRedaction EXCEPT !.hits = hits]

RedactNext == RedactCall

SpecRedact == RedactInit /\ [][RedactNext]_vars

-----------------------------------------------------------------------------
(* Two writers of the index file: index_session.py (update_index) and      *)
(* embed_sessions.py (load_index ... update_index_with_embeddings).  Each  *)
(* reads the file, works on what it read, and writes the file; nothing     *)
(* locks the file in between.                                              *)

(* update_index, lines 154-159, and embed_sessions.load_index: the file is *)
(* read                                                                    *)
WriterLoad(w, kind, session_metadata) ==
    /\ writers[w].pc = "idle"
    /\ ~index.malformed
    /\ kind = "embed" => index.exists /\ index.sessions # <<>>
    /\ writers' = [writers EXCEPT ![w] = [pc |-> "loaded", kind |-> kind, read |-> index,
                                          meta |-> session_metadata]]
    /\ UNCHANGED <<telVars, searchVars, indexVars,
                   threads, cache, stderr, quality_log, recall, redaction>>

(* update_index_with_embeddings, lines 151-181, as a function of the index *)
(* read: the sessions as they were read, with the embedding metadata       *)
WithEmbeddings(idx) == [idx EXCEPT !.exists = TRUE, !.embedding_index = TRUE]

(* update_index, lines 161-181, and update_index_with_embeddings, lines    *)
(* 178-179: what was built from the index read is written over the file    *)
WriterStore(w) ==
    /\ writers[w].pc = "loaded"
    /\ IF writers[w].kind = "ingest"
       THEN /\ index' = Ingest(writers[w].read, writers[w].meta)
            /\ ingested' = [n |-> ingested.n + 1, meta |-> writers[w].meta,
                            before |-> writers[w].read]
            /\ UNCHANGED dense
       ELSE /\ index' = WithEmbeddings(writers[w].read)
            /\ dense' = [dense EXCEPT !.file = TRUE, !.rows = SessionIds(writers[w].read)]
            /\ UNCHANGED ingested
    /\ writers' = [writers EXCEPT ![w].pc = "done"]
    /\ UNCHANGED <<telVars, pc, call, eid, loaded, scored, result,
                   threads, cache, stderr, quality_log, recall, redaction>>

WritersInit ==
    /\ TelInit
    /\ SearchIdle
    /\ SideIdle
    /\ index \in {NoIndexFile, IndexA}
    /\ dense = [DenseOk(NoIndexFile) EXCEPT !.file = FALSE]
    /\ ingested = [n |-> 0, meta |-> MetaD, before |-> NoIndexFile]

WritersNext ==
    \/ \E w \in WriterIds, m \in Metas : WriterLoad(w, "ingest", m)
    \/ \E w \in WriterIds : WriterLoad(w, "embed", MetaD)
    \/ \E w \in WriterIds : WriterStore(w)

SpecWriters == WritersInit /\ [][WritersNext]_vars

-----------------------------------------------------------------------------
(* Properties of search_sessions, checked under SpecSearch *)

(* The events of the running call that reached writer.append *)
CallEvents == { i \in DOMAIN handed : handed[i].event_id = eid }

(* The filtered index the running call scored, and whether dense scores    *)
(* could be produced for it                                                *)
FilteredLoaded == Filtered(loaded, call.session_filter, call.topics_filter)

DenseUnavailable == ~semantic_search(call.query, FilteredLoaded, dense).ok

Scored == pc = "done" /\ scored # NoBranch

(* What the caller can compare: the sessions, their order, their scores *)
Ranking(list) == [i \in DOMAIN list |-> <<list[i].id, list[i].relevance_score>>]

(* C1: once a search_sessions call has left the function, by return or by  *)
(* exception, exactly one event of that call has been handed to the log    *)
(* writer, and at no moment have two been handed.                          *)
C1_ExactlyOneEvent ==
    /\ Cardinality(CallEvents) <= 1
    /\ pc = "done" => Cardinality(CallEvents) = 1

(* C1 witness: an exception raised after the event was ended with success  *)
(* reached the handler, which ended the event a second time.               *)
C1_Witness ==
    /\ pc = "done"
    /\ result.kind = "raised"
    /\ \E i \in CallEvents : handed[i].outcome.success

(* C4: search_sessions never raises to its caller; a call that has left    *)
(* the function has returned a list.                                       *)
C4_NeverRaises == pc = "done" => result.kind = "returned"

SearchFailed ==
    /\ pc = "done"
    /\ \/ result.kind = "raised"
       \/ \E i \in CallEvents : ~handed[i].outcome.success

(* C5: a failed search gives its caller the empty list, and its event has  *)
(* outcome.success = false and an error_type in the outcome.               *)
C5_FailureObservable ==
    SearchFailed =>
        /\ result = [kind |-> "returned", list |-> <<>>]
        /\ \A i \in CallEvents :
              /\ handed[i].outcome.present
              /\ ~handed[i].outcome.success
              /\ handed[i].outcome.error_type # ABSENT

(* C6: a semantic search for which no dense scores can be produced returns *)
(* the empty list and ends its event with success = false and error_type   *)
(* "semantic_unavailable".                                                 *)
C6_SemanticUnavailable ==
    ( /\ pc = "done"
      /\ call.search_mode = "semantic"
      /\ loaded # NoIndexFile
      /\ result.kind = "returned"
      /\ DenseUnavailable )
    => /\ result.list = <<>>
       /\ \A i \in CallEvents :
             /\ ~handed[i].outcome.success
             /\ handed[i].outcome.error_type = "semantic_unavailable"

C8_DegradationRecorded ==
    ( /\ Scored
      /\ result.kind = "returned"
      /\ call.search_mode \in {"hybrid", "auto"} )
    => \A i \in CallEvents :
          /\ DenseUnavailable =>
                /\ handed[i].mode_resolved = "bm25"
                /\ handed[i].degraded = "true"
          /\ handed[i].mode_resolved = "hybrid" => ~DenseUnavailable

(* C9: a search returns at most max(limit, 0) results. *)
C9_AtMostLimit ==
    result.kind = "returned" =>
        Len(result.list) <= (IF call.limit > 0 THEN call.limit ELSE 0)

-----------------------------------------------------------------------------
(* Properties of the collector, checked under SpecTel *)

(* C2: no event_id is on more than one line of the log file. *)
C2_EventIdOncePerLog ==
    \A i, j \in DOMAIN writer.file :
        (i # j /\ writer.file[i].event_id # Null)
            => writer.file[i].event_id # writer.file[j].event_id

(* C3: no event handed to the log has query text (query.raw_query or a     *)
(* bare query string) with a secret the redactor detects.                  *)
C3_QueryRedacted ==
    \A i \in DOMAIN handed : ~QueryDirty(handed[i].query)

-----------------------------------------------------------------------------
(* Properties of the indexer, checked under SpecIndex *)

(* C10: no two sessions of the index share an id, and an update_index call *)
(* leaves exactly the ids that were there plus the ingested one: an id     *)
(* that was present has its entry replaced and the number of sessions      *)
(* unchanged, and every other session stays as it was.                     *)
C10_UniqueIds ==
    /\ \A i, j \in DOMAIN index.sessions :
          index.sessions[i].id = index.sessions[j].id => i = j
    /\ ingested.n > 0 =>
          LET before == ingested.before.sessions
              after  == index.sessions
              id     == ingested.meta.id
          IN  /\ Ids(after) = Ids(before) \cup {id}
              /\ \E i \in DOMAIN after : after[i] = ingested.meta
              /\ id \in Ids(before) => Len(after) = Len(before)
              /\ \A i \in DOMAIN before :
                    before[i].id # id => \E j \in DOMAIN after : after[j] = before[i]

(* C10 witness: an id that was present was ingested again with other       *)
(* metadata, next to another session.                                      *)
C10_Witness ==
    /\ ingested.n > 0
    /\ ingested.meta.id \in Ids(ingested.before.sessions)
    /\ \A i \in DOMAIN ingested.before.sessions :
          ingested.before.sessions[i] # ingested.meta
    /\ Len(index.sessions) >= 2

(* C11: update_index called a second time with the same session metadata  *)
(* leaves the sessions, their order and the BM25 statistics as the first   *)
(* call left them.                                                         *)
C11_IngestIdempotent ==
    /\ ingested.n > 0 => Ingest(index, ingested.meta) = index
    /\ \A m \in Metas : Ingest(Ingest(index, m), m) = Ingest(index, m)

(* C11 witness: the last call repeated the one before it, on an index in   *)
(* which another session has the timestamp of the ingested one.            *)
C11_Witness ==
    /\ ingested.n >= 2
    /\ ingested.before = index
    /\ \E i, j \in DOMAIN index.sessions :
          /\ index.sessions[i] = ingested.meta
          /\ i # j
          /\ index.sessions[j].timestamp = ingested.meta.timestamp

-----------------------------------------------------------------------------
(* Properties of the scores, checked under SpecSearch *)

(* The BM25 score of one session from its own stored statistics: the       *)
(* statistics stored at the position its id has in bm25_index.session_ids; *)
(* a session without tokens has none.                                      *)
OwnRaw(bm25, session, query_tokens) ==
    IF ~bm25.present \/ session.bm25_tokens = <<>> THEN 0
    ELSE LET d == CHOOSE k \in DOMAIN bm25.session_ids : bm25.session_ids[k] = session.id
         IN  SumSeq([j \in DOMAIN query_tokens |-> TermScore(bm25, d, query_tokens[j])])

(* One such score per session of the subset, in subset order, normalised   *)
(* by the largest as bm25_search normalises                                *)
OwnBm25(query, fidx) ==
    LET raw == [i \in DOMAIN fidx.sessions |->
                   OwnRaw(fidx.bm25_index, fidx.sessions[i], tokenize_query(query))]
        m   == MaxSeq(raw)
    IN  [i \in DOMAIN raw |->
            IF m > 0 THEN (raw[i] * Scale) \div m
            ELSE IF fidx.bm25_index.present THEN raw[i] \div IdfUnit(fidx.bm25_index)
            ELSE 0]

HasScored == pc \in {"rank", "post", "done"} /\ scored # NoBranch

(* C13: the BM25 scores search_sessions uses are one per session of the    *)
(* filtered subset, in subset order, each the score of that session from   *)
(* its own tokens and statistics, whatever the filter.                     *)
C13_Bm25ScoresAligned ==
    (HasScored /\ scored.mode_resolved \in {"bm25", "hybrid"})
    => LET sessions == FilteredLoaded.sessions
           own      == OwnBm25(call.query, FilteredLoaded)
       IN  /\ Len(scored.scored) = Len(sessions)
           /\ \A i \in DOMAIN sessions :
                 /\ scored.scored[i].id = sessions[i].id
                 /\ scored.scored[i].bm25_score = own[i]

(* Which component scores a result carries follows from its search_mode *)
HasBm25(r)     == r.search_mode \in {"bm25", "hybrid"}
HasSemantic(r) == r.search_mode \in {"semantic", "hybrid"}

(* C14: every relevance_score search_sessions returns, and each bm25_score, *)
(* semantic_score and temporal_score with it, is in [0, 1].                 *)
C14_ScoresInUnitInterval ==
    result.kind = "returned" =>
        \A i \in DOMAIN result.list :
            LET r == result.list[i]
            IN  /\ r.relevance_score \in 0 .. Unit
                /\ HasBm25(r) => r.bm25_score \in 0 .. Scale
                /\ HasBm25(r) => r.temporal_score \in 0 .. Scale
                /\ HasSemantic(r) => r.semantic_score \in 0 .. Scale

(* The session of the loaded index a result was made from *)
SessionOf(r) ==
    loaded.sessions[CHOOSE i \in DOMAIN loaded.sessions : loaded.sessions[i].id = r.id]

(* a was captured after b: the date calculate_temporal_score reads is      *)
(* later, that is, its age is smaller                                      *)
CapturedAfter(a, b) == SessionOf(a).age < SessionOf(b).age

Dated(r) == SessionOf(r).age # NoAge

(* C15: the returned list is in descending order of relevance_score, and   *)
(* results with the same score are in descending order of capture time     *)
(* and, captured at the same time, in ascending order of session id.       *)
C15_OrderWithTieBreaks ==
    result.kind = "returned" =>
        \A i, j \in DOMAIN result.list :
            i < j =>
                LET a == result.list[i]
                    b == result.list[j]
                IN  /\ a.relevance_score >= b.relevance_score
                    /\ (a.relevance_score = b.relevance_score /\ Dated(a) /\ Dated(b))
                         => \/ CapturedAfter(a, b)
                            \/ ~CapturedAfter(b, a) /\ a.id < b.id

(* The search has returned, and had no session left to score: the index    *)
(* was read and the filters excluded every session.  A semantic search     *)
(* counts only when dense scores can be produced for the index as a whole. *)
NothingToScore ==
    /\ pc = "done"
    /\ result.kind = "returned"
    /\ loaded # NoIndexFile
    /\ FilteredLoaded.sessions = <<>>
    /\ call.search_mode = "semantic" => semantic_search(call.query, loaded, dense).ok

(* C16: a search with no session to score returns the empty list in every  *)
(* mode, and its one event records results.count = 0 and                   *)
(* outcome.success = true.                                                 *)
C16_NoResultsIsSuccess ==
    NothingToScore =>
        /\ result.list = <<>>
        /\ Cardinality(CallEvents) = 1
        /\ \A i \in CallEvents :
              /\ handed[i].count = 0
              /\ handed[i].outcome.present
              /\ handed[i].outcome.success

-----------------------------------------------------------------------------
(* Properties of a search next to the indexer, checked under SpecConc *)

(* json.load raised on what the search read from the index file *)
LoadRaised == pc = "except" /\ loaded = NoIndexFile

(* C12: a search that reads the index file while the indexer is writing it *)
(* reads a whole document, the old one or the new one: the read never      *)
(* fails on a partly written file.                                         *)
C12_WholeIndexRead == ~LoadRaised

-----------------------------------------------------------------------------
(* Properties of the life of an event, checked under SpecLife *)

(* The ids of the events that were ended *)
EndedIds == { handed[i].event_id : i \in DOMAIN handed } \ {Null}

(* C17: a step that ends an in-flight event hands it to the writer once,   *)
(* with the outcome attached when one was given, and takes it out of the   *)
(* in-flight map; an ended id never comes back into the map and never      *)
(* reaches the writer a second time, and what was handed does not change.  *)
C17_EndEventOnce ==
    [][ /\ \A id \in DOMAIN current_events :
              id \notin DOMAIN current_events' =>
                  /\ Len(handed') = Len(handed) + 1
                  /\ \E o \in Outcomes :
                        handed'[Len(handed')] =
                            IF o.present THEN [current_events[id] EXCEPT !.outcome = o]
                                         ELSE current_events[id]
        /\ Len(handed') > Len(handed) =>
              /\ Len(handed') = Len(handed) + 1
              /\ handed'[Len(handed')].event_id \in DOMAIN current_events
              /\ handed'[Len(handed')].event_id \notin DOMAIN current_events'
        /\ \A id \in EndedIds :
              /\ id \notin DOMAIN current_events'
              /\ Cardinality({ i \in DOMAIN handed' : handed'[i].event_id = id }) = 1
        /\ SubSeq(handed', 1, Len(handed)) = handed
      ]_vars

(* C17 witness: an event that was updated and then ended with an outcome   *)
(* is with the writer and no longer in flight, while another is in flight. *)
C17_Witness ==
    /\ \E i \in DOMAIN handed :
          /\ handed[i].event_id \notin DOMAIN current_events
          /\ handed[i].outcome.present
          /\ handed[i].count = 0
    /\ current_events # << >>

-----------------------------------------------------------------------------
(* Properties of the writer, checked under SpecWriter *)

(* C18: every event handed to the log has an event_id that is not null, a  *)
(* timestamp and an event_type.                                            *)
C18_EventsIdentified ==
    \A i \in DOMAIN handed :
        /\ handed[i].event_id \notin {Null, NoInt}
        /\ handed[i].timestamp # NoInt
        /\ handed[i].event_type # ABSENT

C20_BufferBounded == Len(writer.buffer) < batch_size

-----------------------------------------------------------------------------
(* Properties of two threads in the collector, checked under SpecThreads *)

Lines(id) == { j \in DOMAIN writer.file : writer.file[j].event_id = id }

(* C21: when two threads have appended to the shared collector and a final *)
(* flush has succeeded, every event that was ended is in the log file      *)
(* exactly once: none is lost and none is written twice.                   *)
C21_ConcurrentAppendsLogged ==
    (\A t \in ThreadIds : threads[t].pc = "flushed")
    => \A i \in DOMAIN handed : Cardinality(Lines(handed[i].event_id)) = 1

-----------------------------------------------------------------------------
(* Properties of a process that searches several times, checked under      *)
(* SpecProcess                                                             *)

(* C22: once the embedding model has failed to load, no later search       *)
(* constructs it again, and a model that loaded is constructed once and    *)
(* reused: at most one construction succeeds in the life of the process.   *)
C22_ModelLoadSticky ==
    /\ cache.after_failure = 0
    /\ cache.loads - cache.failed <= 1

(* C23: the warning for one degradation reason (an embedding row-count     *)
(* mismatch, a model that does not load) is printed at most once in the    *)
(* life of the process.                                                    *)
C23_WarnOncePerReason ==
    /\ stderr.mismatch <= 1
    /\ stderr.model <= 1

(* C28: a semantic score in a returned result was computed from the        *)
(* embedding row made for the session of that result.                      *)
C28_DenseRowOfSameSession ==
    result.kind = "returned" =>
        \A i \in DOMAIN result.list :
            HasSemantic(result.list[i]) =>
                result.list[i].semantic_score = DenseScore(result.list[i].id, call.query)

-----------------------------------------------------------------------------
(* Properties of smart_recall, checked under SpecRecall *)

(* C24: every record of the quality log has in recall_event_id the id of   *)
(* the recall event it was written for, so that get_event_chain and        *)
(* build_event_timeline, called with that event_id, find the record.       *)
C24_QualityRecordLinked ==
    \A i \in DOMAIN quality_log :
        /\ quality_log[i].recall_event_id = recall.event_id
        /\ i \in get_event_chain(recall.event_id, writer.file, quality_log).quality
        /\ i \in build_event_timeline(recall.event_id, quality_log)

(* The sessions with a score of at least min_relevance, in the order of    *)
(* the whole ranking of the search                                         *)
Qualifying == AtLeast(SortByRelevance(scored.scored), recall.min_relevance)

(* C26: smart_recall returns the first min(limit, q) sessions of the       *)
(* ranking, q being the number of sessions with a score of at least        *)
(* min_relevance; nothing for a limit below one.                           *)
C26_RecallIsFilteredPrefix ==
    recall.pc = "done" =>
        Ranking(recall.results) =
        Ranking(SubSeq(Qualifying, 1,
                       IF recall.limit <= 0 THEN 0
                       ELSE IF recall.limit < Len(Qualifying) THEN recall.limit
                       ELSE Len(Qualifying)))

-----------------------------------------------------------------------------
(* Properties of the stored statistics, checked under SpecIndex *)

(* C25: the stored BM25 statistics are aligned with the sessions by        *)
(* position: doc_len has one entry per session, and doc_len[i] is the      *)
(* number of tokens of sessions[i], also when a session has no tokens.     *)
C25_DocLenAligned ==
    index.bm25_index.present =>
        /\ Len(index.bm25_index.doc_len) = Len(index.sessions)
        /\ \A i \in DOMAIN index.sessions :
              i \in DOMAIN index.bm25_index.doc_len
              => index.bm25_index.doc_len[i] = Len(index.sessions[i].bm25_tokens)

-----------------------------------------------------------------------------
(* Properties of the identity of an event, checked under SpecIdentity *)

(* C29: every in-flight event holds in event_id the id it is tracked       *)
(* under, in event_type the type start_event was given and in timestamp    *)
(* the time of its start, whatever keys the context and the patches have.  *)
C29_IdentityFieldsKept ==
    \A id \in DOMAIN current_events :
        /\ current_events[id].event_id = id
        /\ current_events[id].event_type \in EventTypes
        /\ current_events[id].timestamp \in 0 .. now

-----------------------------------------------------------------------------
(* Properties of SecretRedactor.redact, checked under SpecRedact *)

(* The characters inside the spans of a list of detections *)
Covered(s) == { c \in 1 .. TextLen : \E i \in DOMAIN s : s[i].start < c /\ c <= s[i].end }

(* C27: no character inside the span of a pattern hit that is not          *)
(* whitelisted is in the redacted text, also when spans overlap, and the   *)
(* characters outside the detected spans are all there, in their order.    *)
C27_DetectedSpansRemoved ==
    redaction.pc = "done" =>
        LET all     == all_detections(redaction.hits)
            outside == (1 .. TextLen) \ Covered(all)
        IN  /\ \A c \in Covered(Detections(redaction.hits, "pattern")) :
                  \A i \in DOMAIN redaction.redacted : redaction.redacted[i] # c
            /\ SelectSeq(redaction.redacted, LAMBDA c : c \in outside)
               = SelectSeq(TheText, LAMBDA c : c \in outside)

-----------------------------------------------------------------------------
(* Properties of two writers of the index file, checked under SpecWriters *)

(* C30: the session of a completed update_index call is in the index file  *)
(* after every completed write, the writes of the other writer included.   *)
C30_IngestedSessionStays ==
    \A w \in WriterIds :
        (writers[w].pc = "done" /\ writers[w].kind = "ingest")
        => writers[w].meta.id \in Ids(index.sessions)

====
